---- MODULE Spec2Model ----
(***************************************************************************)
(* A model of the Mycroft time skill (TimeSkill, src/__init__.py): the     *)
(* live current-time and future-time handlers, the responder, and the      *)
(* minute-aligned TTS cache refresh (_cache_current_time_tts), run by the  *)
(* handler threads of the message bus; the display of the time on the     *)
(* Mark I faceplate and on the GUI; and the idle display of a Mark I       *)
(* (display_idle and the wake-word, speak and recognition-unknown          *)
(* handlers).                                                              *)
(*                                                                         *)
(* The Response class and get_display_time (skill package, not part of     *)
(* src/) are modelled from the specification, sections 4.1 - 4.6.          *)
(***************************************************************************)
EXTENDS Integers, Sequences, FiniteSets, TLC

(***************************************************************************)
(* Bounds of the model.                                                    *)
(***************************************************************************)
\* how many times the wall clock advances in one behaviour
MaxTicks == 1
\* how many phrases follow the prefix of an utterance
MaxPhrases == 2

(***************************************************************************)
(* Program constants.                                                      *)
(***************************************************************************)
MARK_I == "mycroft_mark_1"
MARK_II == "mycroft_mark_2"
OtherPlatform == "mycroft_picroft"
TEN_SECONDS == 10
\* self.skill_id + ".current-time"
current_time_cache_key == "mycroft-time.current-time"
\* the cache_key default of speak_dialog / _respond
NoCacheKey == "None"

(***************************************************************************)
(* Wall-clock time: seconds since 00:00:00 of day 0, as the naive          *)
(* datetime the code reads with datetime.now().                            *)
(***************************************************************************)
DayOf(t) == t \div 86400
HourOf(t) == (t % 86400) \div 3600
MinuteOf(t) == (t % 3600) \div 60
SecondOf(t) == t % 60
\* datetime(year, month, day, hour, minute): seconds default to zero
MkDateTime(day, hour, minute, second) == day * 86400 + hour * 3600 + minute * 60 + second

\* A plausible slip: the timedelta added to the untruncated now.
next_minute_untruncated(now) == now + 60
\* lines 362-369: now truncated to the minute, plus timedelta(minutes=1)
next_minute(now) == MkDateTime(DayOf(now), HourOf(now), MinuteOf(now), 0) + 60

(***************************************************************************)
(* Utterances: sequences of words.  A request utterance is a fixed prefix  *)
(* followed by phrases; a phrase is a location phrase ("in london") or a   *)
(* relative-offset phrase ("in 5 hours").                                  *)
(***************************************************************************)
Prefix == <<"what", "time">>
Preps == {"in", "at"}
Numerals == {"2", "5"}
Units == {"hours", "minutes"}
KnownPlaces == {<<"london">>, <<"new", "york">>}
UnknownPlaces == {<<"wakanda">>}
Places == KnownPlaces \cup UnknownPlaces

NumVal(n) == IF n = "2" THEN 2 ELSE 5
UnitSeconds(u) == IF u = "hours" THEN 3600 ELSE 60

LocPhrases == {[kind |-> "loc", words |-> <<p>> \o place, place |-> place, dur |-> 0] :
                  p \in Preps, place \in Places}
OffPhrases == {[kind |-> "off", words |-> <<"in", n, u>>, place |-> <<>>,
                dur |-> NumVal(n) * UnitSeconds(u)] : n \in Numerals, u \in Units}
Phrases == LocPhrases \cup OffPhrases

RECURSIVE Render(_)
Render(parts) == IF parts = <<>> THEN <<>> ELSE Head(parts).words \o Render(Tail(parts))

CountKind(parts, k) == Cardinality({i \in DOMAIN parts : parts[i].kind = k})

\* the phrase lists of the requests: at most one location phrase
PartSeqs(P, n) == {ps \in UNION {[1..k -> P] : k \in 0..n} : CountKind(ps, "loc") <= 1}
\* every phrase list, for the checks of the response builder alone
AllParts == PartSeqs(Phrases, MaxPhrases)
\* the phrase lists of the live requests when the refresh threads run too:
\* no phrase, a location, an offset, a location and an offset
LivePhrases == {ph \in Phrases : /\ ph.words[1] = "in"
                                 /\ ph.place \in {<<>>, <<"london">>, <<"wakanda">>}
                                 /\ ph.dur \in {0, 5 * 3600}}
LiveParts == {ps \in PartSeqs(LivePhrases, 2) :
                 Len(ps) = 2 => (ps[1].place = <<"london">> /\ ps[2].kind = "off")}

(***************************************************************************)
(* The Response builder (skill package; modelled from the specification).  *)
(* Optional values are sequences: <<>> is None, <<v>> is the value v.      *)
(***************************************************************************)
None == <<>>
Some(v) == <<v>>
NoDialog == "unset"

\* 4.1 Duration Extractor: remove every offset span, add up the durations
RECURSIVE extract_duration(_)
extract_duration(s) ==
    IF s = <<>> THEN [remainder |-> <<>>, duration |-> 0]
    ELSE IF Len(s) >= 3 /\ s[1] = "in" /\ s[2] \in Numerals /\ s[3] \in Units
    THEN LET r == extract_duration(SubSeq(s, 4, Len(s)))
         IN [remainder |-> r.remainder,
             duration |-> r.duration + NumVal(s[2]) * UnitSeconds(s[3])]
    ELSE IF Len(s) >= 2 /\ s[1] \in Numerals /\ s[2] \in Units
    THEN LET r == extract_duration(SubSeq(s, 3, Len(s)))
         IN [remainder |-> r.remainder,
             duration |-> r.duration + NumVal(s[1]) * UnitSeconds(s[2])]
    ELSE LET r == extract_duration(Tail(s))
         IN [remainder |-> <<Head(s)>> \o r.remainder, duration |-> r.duration]

\* 4.2 Location Extractor: the words after the first "in" / "at", if any
extract_location(s) ==
    LET hits == {i \in 1..(Len(s) - 1) : s[i] \in Preps}
    IN IF hits = {} THEN <<>>
       ELSE LET i == CHOOSE j \in hits : \A k \in hits : j <= k
            IN SubSeq(s, i + 1, Len(s))

\* the timezone of a place, as an offset from the device's local time
TzOffset(place) == IF place = <<"london">> THEN 5 * 3600 ELSE 0 - 3 * 3600

\* 4.3 Geolocation Resolver: found is the answer of the external lookup
resolve(place, found) ==
    IF place \in KnownPlaces /\ found
    THEN Some([city |-> place, timezone |-> TzOffset(place)])
    ELSE None

\* 4.4 Time Computer
now_at(now, geolocation) ==
    IF geolocation = None THEN now ELSE now + geolocation[1].timezone
compute(base, duration) == base + duration

\* the locale formatting capability: "H:MM" of a date-time, as (hour, minute)
nice_time(dt) == <<HourOf(dt), MinuteOf(dt)>>
get_display_location(geolocation) == geolocation[1].city

NewResponse == [requested_location |-> <<>>, geolocation |-> None, date_time |-> None,
                dialog_name |-> NoDialog, dialog_time |-> None, dialog_location |-> <<>>,
                built_by |-> "none", duration |-> 0]

\* the build's result: the Response as the build left it, and whether
\* LocationNotFoundError was raised
LocationRaised(resp, loc) ==
    [response |-> [resp EXCEPT !.requested_location = loc], raised |-> TRUE]

\* A plausible slip: a key is selected only for a location-qualified response.
dialog_key_location_only(geo, stem) == IF geo = None THEN NoDialog ELSE stem \o "-location"
\* 4.5: the template key, by entry and by whether a location was resolved
dialog_key(geo, stem) == IF geo = None THEN stem ELSE stem \o "-location"

FillDialog(resp, loc, geo, dt, stem) ==
    [resp EXCEPT !.requested_location = loc,
                 !.geolocation = geo,
                 !.date_time = Some(dt),
                 !.dialog_name = dialog_key(geo, stem),
                 !.dialog_time = Some(nice_time(dt)),
                 !.dialog_location = IF geo = None THEN <<>> ELSE get_display_location(geo)]

\* 4.5 Entry A
build_current_time_response(utterance, now, found) ==
    LET resp == [NewResponse EXCEPT !.built_by = "current"]
        loc == extract_location(utterance)
        geo == IF loc = <<>> THEN None ELSE resolve(loc, found)
    IN IF loc # <<>> /\ geo = None
       THEN LocationRaised(resp, loc)
       ELSE [response |-> FillDialog(resp, loc, geo, now_at(now, geo), "current-time"),
             raised |-> FALSE]

\* 4.5 Entry B
build_future_time_response(utterance, now, found) ==
    LET ex == extract_duration(utterance)
        resp == [NewResponse EXCEPT !.built_by = "future", !.duration = ex.duration]
        loc == extract_location(ex.remainder)
        geo == IF loc = <<>> THEN None ELSE resolve(loc, found)
    IN IF loc # <<>> /\ geo = None
       THEN LocationRaised(resp, loc)
       ELSE IF ex.duration = 0
       THEN [response |-> [resp EXCEPT !.requested_location = loc, !.geolocation = geo],
             raised |-> FALSE]
       ELSE [response |-> FillDialog(resp, loc, geo,
                                     compute(now_at(now, geo), ex.duration), "future-time"),
             raised |-> FALSE]


(***************************************************************************)
(* The state of the skill and of its collaborators.                        *)
(***************************************************************************)
VARIABLES
    clock,          \* the wall clock, in seconds
    ticks,          \* how often the clock advanced
    platform,       \* config_core["enclosure"]["platform"]
    gui_connected,  \* self.gui.connected
    pc,             \* where each handler thread is
    request,        \* the live request: its intent, its utterance, its phrases
    response,       \* the Response of the live handler
    cache_key,      \* the cache_key the live handler passes to _respond
    future_result,  \* what build_future_time_response did for the live request
    lnf_raised,     \* whether a build of the live request raised LocationNotFoundError
    spoken,         \* the speak_dialog calls of the live request, in order
    displayed,      \* the _display_time calls of the live request, in order
    wake,           \* when the live handler's time.sleep ends
    escaped,        \* the exceptions that left a handler for the host
    pending,        \* the event scheduler's pending "CacheTTS" tasks (their times)
    rc_response,    \* the Response each refresh invocation built
    cache,          \* the speech cache: the dialogs stored, by cache key
    logged,         \* the last "Error while caching TTS" logged, if any
    started,        \* whether mycroft.started was emitted
    speaking,       \* whether the audio service is speaking
    mouth_events,   \* whether the enclosure's mouth events are active (Mark I)
    faceplate,      \* the time on the Mark I faceplate, if any
    gui_page,       \* the page the skill has on the GUI, "none" when released
    gui_location,   \* self.gui["location"]: the GUI session's location, if set
    display_active, \* enclosure.display_manager.get_active(): a skill holds the faceplate
    show_time,      \* self.settings["show_time"]
    displayed_time, \* self.displayed_time
    idle_scheduled, \* whether the repeating event "IdleTime" is scheduled
    ipc,            \* where display_idle and each event handler is
    di_time,        \* display_time of the display_idle call in progress
    sp_wake,        \* when the time.sleep of handle_speak ends
    ww_quiet,       \* a wake word was handled and no speak or
                    \* speech-recognition-unknown event has come since
    idle_restored   \* handle_speak or handle_speech_recognition_unknown has
                    \* run, and neither a wake word nor an idle tick has come since

\* the state of the enclosure, of the GUI and of the audio service
DeviceVars == <<speaking, mouth_events, faceplate, gui_page, gui_location, display_active>>

\* the state of the idle display of a Mark I
IdleVars == <<show_time, displayed_time, idle_scheduled, ipc, di_time, sp_wake, ww_quiet,
              idle_restored>>

vars == <<clock, ticks, platform, gui_connected, pc, request, response,
          cache_key, future_result, lnf_raised, spoken, displayed, wake, escaped, pending, rc_response,
          cache, logged, started, DeviceVars, IdleVars>>

\* the handler threads: the live intent handler, the handler of the
\* mycroft.started event, the handler of the scheduled event
Live == "live"
Started == "started"
Sched == "sched"
Threads == {Live, Started, Sched}

NoRequest == [intent |-> "none", utterance |-> <<>>, parts |-> <<>>]

\* the clock at start: ten seconds before midnight of day 1
StartClock == MkDateTime(1, 23, 59, 50)

\* the devices: a Mark I, a Mark II with its GUI, another device with or
\* without a GUI (a platform check comes before every GUI check)
Devices == {<<MARK_I, FALSE>>, <<MARK_II, TRUE>>, <<OtherPlatform, TRUE>>,
            <<OtherPlatform, FALSE>>}

NoPage == "none"

\* display_idle and the handlers of the wake word and of the speak event
DisplayIdle == "display_idle"
WakeWord == "handle_wake_word_detected"
HandleSpeak == "handle_speak"
IdleThreads == {DisplayIdle, WakeWord, HandleSpeak}

\* lines 75-82
display_when_idle == platform = MARK_I /\ show_time

\* the skill after initialize (lines 56, 84-94), on one of the devices, at
\* one of the clocks, with one of the values of the show_time setting
InitWith(devices, clocks, settings) ==
    /\ clock \in clocks
    /\ ticks = 0
    /\ \E d \in devices : platform = d[1] /\ gui_connected = d[2]
    /\ show_time \in settings
    /\ displayed_time = None
    /\ idle_scheduled = display_when_idle
    /\ ipc = [t \in IdleThreads |-> "idle"]
    /\ di_time = None
    /\ sp_wake = 0
    /\ ww_quiet = FALSE
    /\ idle_restored = FALSE
    /\ display_active = FALSE
    /\ pc = [t \in Threads |-> "idle"]
    /\ request = NoRequest
    /\ response = NewResponse
    /\ cache_key = NoCacheKey
    /\ future_result = None
    /\ lnf_raised = FALSE
    /\ spoken = <<>>
    /\ displayed = <<>>
    /\ wake = 0
    /\ escaped = {}
    /\ pending = <<>>
    /\ rc_response = [t \in Threads |-> NewResponse]
    /\ cache = {}
    /\ logged = None
    /\ started = FALSE
    /\ speaking = FALSE
    /\ mouth_events = TRUE
    /\ faceplate = None
    /\ gui_page = NoPage
    /\ gui_location = None

InitOn(devices, clocks) == InitWith(devices, clocks, {FALSE})

\* the skill after initialize, on a Mark II with its GUI
Init == InitOn({<<MARK_II, TRUE>>}, {StartClock})

Tick ==
    /\ ticks < MaxTicks
    /\ clock' = clock + TEN_SECONDS
    /\ ticks' = ticks + 1
    /\ UNCHANGED <<platform, gui_connected, pc, request, response, cache_key,
                   future_result, lnf_raised, spoken, displayed, wake, escaped, pending, rc_response, cache,
                   logged, started>>
    /\ UNCHANGED DeviceVars
    /\ UNCHANGED IdleVars

(***************************************************************************)
(* The live handlers.                                                      *)
(***************************************************************************)
LiveFrame == <<clock, ticks, platform, gui_connected, pending, rc_response,
               cache, logged, started, IdleVars>>

\* handle_current_time_* / handle_future_time_*: the intent service hands a
\* request to the skill
Request(intent, parts) ==
    /\ pc[Live] = "idle"
    /\ request' = [intent |-> intent, utterance |-> Prefix \o Render(parts), parts |-> parts]
    /\ pc' = [pc EXCEPT ![Live] = IF intent = "future" THEN "future_build" ELSE "current_build"]
    /\ response' = NewResponse
    /\ cache_key' = NoCacheKey
    /\ future_result' = None
    /\ lnf_raised' = FALSE
    /\ spoken' = <<>>
    /\ displayed' = <<>>
    /\ UNCHANGED <<wake, escaped>>
    /\ UNCHANGED DeviceVars
    /\ UNCHANGED LiveFrame

\* line 177: which build the future-time handler runs
future_entry_current(utterance, now, found) ==
    build_current_time_response(utterance, now, found)
future_entry(utterance, now, found) == build_future_time_response(utterance, now, found)

\* A plausible slip: no fallback, the future Response is always spoken.
future_branch_always_respond(resp) == "display"
\* lines 181-184: fall back to the current time, or respond
future_branch(resp) == IF resp.date_time = None THEN "current_build" ELSE "display"

\* A plausible slip: LocationNotFoundError is not caught.
on_location_not_found_uncaught == [pc |-> "done", escaped |-> {"LocationNotFoundError"}]
\* lines 178-179, 199-200: except LocationNotFoundError
on_location_not_found == [pc |-> "location_not_found", escaped |-> {}]

\* lines 175-184
FutureBuild ==
    /\ pc[Live] = "future_build"
    /\ \E found \in BOOLEAN :
         LET r == future_entry(request.utterance, clock, found)
         IN /\ response' = r.response
            /\ future_result' = Some(r)
            /\ lnf_raised' = r.raised
            /\ IF r.raised
               THEN /\ pc' = [pc EXCEPT ![Live] = on_location_not_found.pc]
                    /\ escaped' = escaped \cup on_location_not_found.escaped
               ELSE /\ pc' = [pc EXCEPT ![Live] = future_branch(r.response)]
                    /\ escaped' = escaped
    /\ cache_key' = NoCacheKey
    /\ UNCHANGED <<request, spoken, displayed, wake>>
    /\ UNCHANGED DeviceVars
    /\ UNCHANGED LiveFrame

\* A plausible slip: every current-time response is spoken with the key.
cache_key_for_always(resp) == current_time_cache_key
\* lines 202-206
cache_key_for(resp) ==
    IF resp.requested_location = <<>> THEN current_time_cache_key ELSE NoCacheKey

\* lines 196-207
CurrentBuild ==
    /\ pc[Live] = "current_build"
    /\ \E found \in BOOLEAN :
         LET r == build_current_time_response(request.utterance, clock, found)
         IN /\ response' = r.response
            /\ lnf_raised' = r.raised
            /\ IF r.raised
               THEN /\ pc' = [pc EXCEPT ![Live] = on_location_not_found.pc]
                    /\ escaped' = escaped \cup on_location_not_found.escaped
                    /\ cache_key' = NoCacheKey
               ELSE /\ pc' = [pc EXCEPT ![Live] = "display"]
                    /\ escaped' = escaped
                    /\ cache_key' = cache_key_for(r.response)
    /\ UNCHANGED <<request, future_result, spoken, displayed, wake>>
    /\ UNCHANGED DeviceVars
    /\ UNCHANGED LiveFrame

\* a speak_dialog call: the dialog, its data, the cache key, and the Response
\* it was made for
SpeakCall(name, time, location, key, resp) ==
    [name |-> name, time |-> time, location |-> location, cache_key |-> key, of |-> resp]

\* A plausible slip: the dialog file is named with underscores.
location_not_found_dialog_misnamed(resp) ==
    SpeakCall("location_not_found", None, resp.requested_location, NoCacheKey, resp)
\* lines 216-217
location_not_found_dialog(resp) ==
    SpeakCall("location-not-found", None, resp.requested_location, NoCacheKey, resp)

\* lines 210-217: speak_dialog without wait, the handler returns while the
\* dialog is spoken
HandleLocationNotFound ==
    /\ pc[Live] = "location_not_found"
    /\ spoken' = Append(spoken, location_not_found_dialog(response))
    /\ speaking' = TRUE
    /\ pc' = [pc EXCEPT ![Live] = "done"]
    /\ UNCHANGED <<request, response, cache_key, future_result, lnf_raised,
                   displayed, wake, escaped>>
    /\ UNCHANGED <<mouth_events, faceplate, gui_page, gui_location, display_active>>
    /\ UNCHANGED LiveFrame

\* lines 234-245: the medium the time is put on
display_medium ==
    IF platform = MARK_I THEN "faceplate"
    ELSE IF gui_connected THEN "gui"
    ELSE "none"

\* the display formatting capability: "H:MM" of a date-time, as (hour, minute)
get_display_time(dt) == <<HourOf(dt), MinuteOf(dt)>>

\* lines 273-282: the page of the device, and the location of the GUI session,
\* which is set when the Response has a geolocation
gui_page_for == IF platform = MARK_II THEN "time-mark-ii.qml" ELSE "time-scalable.qml"
gui_location_for(resp) ==
    IF platform = MARK_II /\ resp.geolocation # None
    THEN Some(get_display_location(resp.geolocation))
    ELSE gui_location

\* lines 225, 234-245: _display_time
DisplayTime ==
    /\ pc[Live] = "display"
    /\ displayed' = Append(displayed, [medium |-> display_medium, of |-> response])
    /\ IF platform = MARK_I
       THEN /\ mouth_events' = FALSE
            /\ faceplate' = Some(get_display_time(response.date_time[1]))
            /\ display_active' = TRUE
            /\ UNCHANGED <<gui_page, gui_location>>
       ELSE IF gui_connected
       THEN /\ gui_location' = gui_location_for(response)
            /\ gui_page' = gui_page_for
            /\ UNCHANGED <<mouth_events, faceplate, display_active>>
       ELSE UNCHANGED <<mouth_events, faceplate, gui_page, gui_location, display_active>>
    /\ pc' = [pc EXCEPT ![Live] = "speak"]
    /\ UNCHANGED <<request, response, cache_key, future_result, lnf_raised,
                   spoken, wake, escaped, speaking>>
    /\ UNCHANGED LiveFrame

\* A plausible slip: the dialog is spoken without wait.
speak_wait_missing == FALSE
\* line 227: wait=True
speak_wait == TRUE

\* lines 226-228: speak_dialog hands the dialog to the audio service; with
\* wait=True it returns when the speech has ended
Speak ==
    /\ pc[Live] = "speak"
    /\ spoken' = Append(spoken, SpeakCall(response.dialog_name, response.dialog_time,
                                          response.dialog_location, cache_key, response))
    /\ speaking' = TRUE
    /\ pc' = [pc EXCEPT ![Live] = IF speak_wait THEN "speaking" ELSE "cleanup"]
    /\ UNCHANGED <<request, response, cache_key, future_result, lnf_raised,
                   displayed, wake, escaped>>
    /\ UNCHANGED <<mouth_events, faceplate, gui_page, gui_location, display_active>>
    /\ UNCHANGED LiveFrame

\* lines 226-232: speak_dialog raises; _respond has no handler, so the
\* exception leaves it and the intent handler, and lines 229-232 do not run
SpeakFails ==
    /\ pc[Live] = "speak"
    /\ pc' = [pc EXCEPT ![Live] = "done"]
    /\ escaped' = escaped \cup {"Exception"}
    /\ UNCHANGED <<request, response, cache_key, future_result, lnf_raised,
                   spoken, displayed, wake>>
    /\ UNCHANGED DeviceVars
    /\ UNCHANGED LiveFrame

\* the audio service has spoken the dialog; a speak_dialog that waits returns
SpeechEnds ==
    /\ speaking
    /\ speaking' = FALSE
    /\ pc' = IF pc[Live] = "speaking" THEN [pc EXCEPT ![Live] = "cleanup"] ELSE pc
    /\ UNCHANGED <<request, response, cache_key, future_result, lnf_raised,
                   spoken, displayed, wake, escaped>>
    /\ UNCHANGED <<mouth_events, faceplate, gui_page, gui_location, display_active>>
    /\ UNCHANGED LiveFrame

\* A plausible slip: after its response the future-time handler goes on into
\* the fallback.
after_respond_falls_through(resp) ==
    IF resp.built_by = "current" THEN "rc_cancel" ELSE "current_build"
\* where _respond returns to: line 208 after a current-time response, the end
\* of the handler after a future-time response
after_respond(resp) == IF resp.built_by = "current" THEN "rc_cancel" ELSE "done"

\* lines 229-232: on a Mark I, sleep ten seconds before clearing the
\* faceplate; on a device with a GUI, release the GUI (SkillGUI.release
\* closes the skill's page and resets the values of the GUI session)
Cleanup ==
    /\ pc[Live] = "cleanup"
    /\ IF platform = MARK_I
       THEN /\ wake' = clock + TEN_SECONDS
            /\ pc' = [pc EXCEPT ![Live] = "sleeping"]
            /\ UNCHANGED <<gui_page, gui_location>>
       ELSE /\ wake' = wake
            /\ pc' = [pc EXCEPT ![Live] = after_respond(response)]
            /\ gui_page' = IF gui_connected THEN NoPage ELSE gui_page
            /\ gui_location' = IF gui_connected THEN None ELSE gui_location
    /\ UNCHANGED <<request, response, cache_key, future_result, lnf_raised,
                   spoken, displayed, escaped>>
    /\ UNCHANGED <<speaking, mouth_events, faceplate, display_active>>
    /\ UNCHANGED LiveFrame

\* lines 344-348: the sleep has ended; the mouth is reset and the mouth
\* events are activated
ClearMarkI ==
    /\ pc[Live] = "sleeping"
    /\ clock >= wake
    /\ wake' = 0
    /\ faceplate' = None
    /\ mouth_events' = TRUE
    /\ display_active' = FALSE
    /\ pc' = [pc EXCEPT ![Live] = after_respond(response)]
    /\ UNCHANGED <<request, response, cache_key, future_result, lnf_raised,
                   spoken, displayed, escaped>>
    /\ UNCHANGED <<speaking, gui_page, gui_location>>
    /\ UNCHANGED LiveFrame


\* lines 111-112, 123-124, 141-142, 153-154: the handler returns and the
\* request with its Response goes away
HandlerReturn ==
    /\ pc[Live] = "done"
    /\ pc' = [pc EXCEPT ![Live] = "idle"]
    /\ request' = NoRequest
    /\ response' = NewResponse
    /\ cache_key' = NoCacheKey
    /\ future_result' = None
    /\ lnf_raised' = FALSE
    /\ spoken' = <<>>
    /\ displayed' = <<>>
    /\ UNCHANGED <<wake, escaped>>
    /\ UNCHANGED DeviceVars
    /\ UNCHANGED LiveFrame

(***************************************************************************)
(* _cache_current_time_tts (lines 357-384), run by the handler of           *)
(* mycroft.started, by the handler of the scheduled "CacheTTS" event, and  *)
(* inline at the end of a live current-time request (line 208).  The       *)
(* threads of the bus run it concurrently; each call below is one step.    *)
(***************************************************************************)
RefreshFrame == <<clock, ticks, platform, gui_connected, request, response,
                  cache_key, future_result, lnf_raised, spoken, displayed, wake, escaped, started,
                  DeviceVars, IdleVars>>

\* line 94: the mycroft.started event
StartedEvent ==
    /\ ~started
    /\ pc[Started] = "idle"
    /\ started' = TRUE
    /\ pc' = [pc EXCEPT ![Started] = "rc_cancel"]
    /\ UNCHANGED <<clock, ticks, platform, gui_connected, request, response,
                   cache_key, future_result, lnf_raised, spoken, displayed, wake, escaped, pending, rc_response,
                   cache, logged>>
    /\ UNCHANGED DeviceVars
    /\ UNCHANGED IdleVars

RemoveAt(s, i) == SubSeq(s, 1, i - 1) \o SubSeq(s, i + 1, Len(s))

\* the event scheduler: a pending task whose time has come is taken off the
\* list and its handler runs
FireScheduled ==
    /\ pc[Sched] = "idle"
    /\ \E i \in DOMAIN pending :
         /\ pending[i] <= clock
         /\ pending' = RemoveAt(pending, i)
    /\ pc' = [pc EXCEPT ![Sched] = "rc_cancel"]
    /\ UNCHANGED <<clock, ticks, platform, gui_connected, request, response,
                   cache_key, future_result, lnf_raised, spoken, displayed, wake, escaped, rc_response,
                   cache, logged, started>>
    /\ UNCHANGED DeviceVars
    /\ UNCHANGED IdleVars

\* A plausible slip: the task is re-armed last, after the dialog was cached.
rc_next_schedule_last(step, failed) ==
    IF failed THEN "idle"
    ELSE CASE step = "rc_cancel" -> "rc_build"
           [] step = "rc_build" -> "rc_cache"
           [] step = "rc_cache" -> "rc_caching"
           [] step = "rc_caching" -> "rc_schedule"
           [] step = "rc_schedule" -> "idle"
\* lines 358-384: the order of the calls in the try block; an exception
\* leaves the block for the handler at line 383, which returns
rc_next(step, failed) ==
    IF failed THEN "idle"
    ELSE CASE step = "rc_cancel" -> "rc_schedule"
           [] step = "rc_schedule" -> "rc_build"
           [] step = "rc_build" -> "rc_cache"
           [] step = "rc_cache" -> "rc_caching"
           [] step = "rc_caching" -> "idle"

\* where a thread is when its refresh has returned: the live handler is at
\* the end of _handle_current_time, the event handlers are finished
Returned(t, step) == IF t = Live /\ step = "idle" THEN "done" ELSE step

\* line 384: self.log.exception("Error while caching TTS")
LogException(t, error) == [thread |-> t, error |-> error]

\* line 360: cancel_scheduled_event("CacheTTS") drops every pending task of the name
RcCancel(t) ==
    /\ pc[t] = "rc_cancel"
    /\ pending' = <<>>
    /\ pc' = [pc EXCEPT ![t] = Returned(t, rc_next("rc_cancel", FALSE))]
    /\ UNCHANGED <<rc_response, cache, logged>>
    /\ UNCHANGED RefreshFrame

\* lines 362-373: schedule_event(..., when=next_minute, name="CacheTTS")
RcSchedule(t) ==
    /\ pc[t] = "rc_schedule"
    /\ pending' = Append(pending, next_minute(clock))
    /\ pc' = [pc EXCEPT ![t] = Returned(t, rc_next("rc_schedule", FALSE))]
    /\ UNCHANGED <<rc_response, cache, logged>>
    /\ UNCHANGED RefreshFrame

\* A plausible slip: the refresh builds from a location-qualified utterance.
refresh_utterance_london == <<"what", "time", "in", "london">>
\* line 376: build_current_time_response("")
refresh_utterance == <<>>

\* lines 375-376; a failure of the build is caught at line 383 and logged
RcBuild(t) ==
    /\ pc[t] = "rc_build"
    /\ \E found \in BOOLEAN, fails \in BOOLEAN :
         LET r == build_current_time_response(refresh_utterance, clock, found)
         IN /\ pc' = [pc EXCEPT ![t] = Returned(t, rc_next("rc_build", r.raised \/ fails))]
            /\ IF r.raised \/ fails
               THEN /\ logged' = Some(LogException(t, IF r.raised
                                                          THEN "LocationNotFoundError"
                                                          ELSE "Exception"))
                    /\ rc_response' = rc_response
               ELSE /\ logged' = logged
                    /\ rc_response' = [rc_response EXCEPT ![t] = r.response]
    /\ UNCHANGED <<pending, cache>>
    /\ UNCHANGED RefreshFrame

\* A plausible slip: one cache key per thread.
refresh_cache_key_per_thread(t) == current_time_cache_key \o "." \o t
\* line 381
refresh_cache_key(t) == current_time_cache_key

\* line 378: cache_dialog is entered; the synthesis takes time
RcCacheBegin(t) ==
    /\ pc[t] = "rc_cache"
    /\ pc' = [pc EXCEPT ![t] = Returned(t, rc_next("rc_cache", FALSE))]
    /\ UNCHANGED <<pending, rc_response, cache, logged>>
    /\ UNCHANGED RefreshFrame

CacheEntry(key, resp, t) ==
    [key |-> key, name |-> resp.dialog_name, time |-> resp.dialog_time,
     location |-> resp.dialog_location, by |-> t]

\* lines 378-384: cache_dialog stores the dialog under the key, or fails and
\* the failure is logged
RcCacheEnd(t) ==
    /\ pc[t] = "rc_caching"
    /\ \E fails \in BOOLEAN :
         /\ pc' = [pc EXCEPT ![t] = Returned(t, rc_next("rc_caching", fails))]
         /\ IF fails
            THEN /\ logged' = Some(LogException(t, "Exception"))
                 /\ cache' = cache
            ELSE /\ logged' = logged
                 /\ cache' = {e \in cache : e.key # refresh_cache_key(t)}
                                \cup {CacheEntry(refresh_cache_key(t), rc_response[t], t)}
    /\ rc_response' = [rc_response EXCEPT ![t] = NewResponse]
    /\ UNCHANGED <<pending>>
    /\ UNCHANGED RefreshFrame

Refresh ==
    \E t \in Threads :
        \/ RcCancel(t)
        \/ RcSchedule(t)
        \/ RcBuild(t)
        \/ RcCacheBegin(t)
        \/ RcCacheEnd(t)

LiveRequest == \E intent \in {"current", "future"}, parts \in LiveParts : Request(intent, parts)

\* the handler threads of a Mark II, interleaved
Next ==
    \/ Tick
    \/ LiveRequest
    \/ FutureBuild
    \/ CurrentBuild
    \/ HandleLocationNotFound
    \/ DisplayTime
    \/ Speak
    \/ SpeechEnds
    \/ Cleanup
    \/ HandlerReturn
    \/ StartedEvent
    \/ FireScheduled
    \/ Refresh

Spec == Init /\ [][Next]_vars

(***************************************************************************)
(* The cache refresh alone, from any second of the clock: the instants     *)
(* around the minute, hour and day boundaries.                             *)
(***************************************************************************)
MaxDay == 1
ClockSamples == {MkDateTime(d, h, m, sec) : d \in 0..MaxDay, h \in {0, 11, 23},
                                            m \in {0, 29, 59}, sec \in {0, 1, 30, 59}}

InitMinute == InitOn({<<MARK_II, TRUE>>}, ClockSamples)

NextMinute ==
    \/ StartedEvent
    \/ Refresh

SpecMinute == InitMinute /\ [][NextMinute]_vars

(***************************************************************************)
(* The live handlers alone (no other thread runs the refresh), on every    *)
(* device and on every utterance of the phrase lists.                      *)
(***************************************************************************)
InitLive == InitOn(Devices, {StartClock})

AnyRequest == \E intent \in {"current", "future"}, parts \in AllParts : Request(intent, parts)

NextLive ==
    \/ Tick
    \/ AnyRequest
    \/ FutureBuild
    \/ CurrentBuild
    \/ HandleLocationNotFound
    \/ DisplayTime
    \/ Speak
    \/ SpeechEnds
    \/ Cleanup
    \/ ClearMarkI
    \/ HandlerReturn
    \/ Refresh

SpecLive == InitLive /\ [][NextLive]_vars

(***************************************************************************)
(* The live handlers on a Mark I and on a Mark II, where the speech        *)
(* capability may fail: speak_dialog raises.                               *)
(***************************************************************************)
InitFault == InitOn({<<MARK_I, FALSE>>, <<MARK_II, TRUE>>}, {StartClock})

NextFault ==
    \/ Tick
    \/ LiveRequest
    \/ FutureBuild
    \/ CurrentBuild
    \/ HandleLocationNotFound
    \/ DisplayTime
    \/ Speak
    \/ SpeakFails
    \/ SpeechEnds
    \/ Cleanup
    \/ ClearMarkI
    \/ HandlerReturn
    \/ Refresh

SpecFault == InitFault /\ [][NextFault]_vars

(***************************************************************************)
(* The idle display of a Mark I: display_idle, run by the repeating event  *)
(* "IdleTime", and the handlers of the wake word, of the speak event and   *)
(* of mycroft.speech.recognition.unknown.  The bus runs each handler on a  *)
(* thread of its own.                                                      *)
(***************************************************************************)
IdleFrame == <<clock, ticks, platform, gui_connected, pc, request, response,
               cache_key, future_result, lnf_raised, spoken, displayed, wake, escaped,
               pending, rc_response, cache, logged, started, gui_page, gui_location>>

\* line 302: time.sleep(5)
SpeakSleep == 5

\* lines 314-325: schedule_repeating_event(..., name="IdleTime")
check_mark_i_idle_setting(show) == IF show /\ platform = MARK_I THEN TRUE ELSE idle_scheduled

\* lines 156-164
HandleShowTime ==
    /\ ~show_time
    /\ show_time' = TRUE
    /\ idle_scheduled' = check_mark_i_idle_setting(TRUE)
    /\ UNCHANGED <<displayed_time, ipc, di_time, sp_wake, ww_quiet, idle_restored>>
    /\ UNCHANGED DeviceVars
    /\ UNCHANGED IdleFrame

\* the event scheduler runs display_idle while "IdleTime" is scheduled
IdleFire ==
    /\ idle_scheduled
    /\ ipc[DisplayIdle] = "idle"
    /\ ipc' = [ipc EXCEPT ![DisplayIdle] = "check"]
    /\ UNCHANGED <<show_time, displayed_time, idle_scheduled, di_time, sp_wake, ww_quiet, idle_restored>>
    /\ UNCHANGED DeviceVars
    /\ UNCHANGED IdleFrame

\* lines 330-333: whether display_idle goes on to render
idle_renders(active, time) == display_when_idle /\ ~active /\ Some(time) # displayed_time

\* lines 330-333
IdleCheck ==
    /\ ipc[DisplayIdle] = "check"
    /\ IF idle_renders(display_active, get_display_time(clock))
       THEN /\ di_time' = Some(get_display_time(clock))
            /\ ipc' = [ipc EXCEPT ![DisplayIdle] = "render"]
       ELSE /\ di_time' = None
            /\ ipc' = [ipc EXCEPT ![DisplayIdle] = "idle"]
    /\ idle_restored' = FALSE
    /\ UNCHANGED <<show_time, displayed_time, idle_scheduled, sp_wake, ww_quiet>>
    /\ UNCHANGED DeviceVars
    /\ UNCHANGED IdleFrame

\* lines 334-336: the time is rendered on the faceplate and the display is
\* given up again
IdleRender ==
    /\ ipc[DisplayIdle] = "render"
    /\ displayed_time' = di_time
    /\ faceplate' = di_time
    /\ display_active' = FALSE
    /\ di_time' = None
    /\ ipc' = [ipc EXCEPT ![DisplayIdle] = "idle"]
    /\ UNCHANGED <<show_time, idle_scheduled, sp_wake, ww_quiet, idle_restored>>
    /\ UNCHANGED <<speaking, mouth_events, gui_page, gui_location>>
    /\ UNCHANGED IdleFrame

\* lines 284-290: recognizer_loop:wakeword
WakeWordEvent ==
    /\ ipc[WakeWord] = "idle"
    /\ display_when_idle
    /\ ipc' = [ipc EXCEPT ![WakeWord] = "clear"]
    /\ idle_restored' = FALSE
    /\ UNCHANGED <<show_time, displayed_time, idle_scheduled, di_time, sp_wake, ww_quiet>>
    /\ UNCHANGED DeviceVars
    /\ UNCHANGED IdleFrame

\* lines 291, 344-348: _clear_mark_i_display()
WakeWordClear ==
    /\ ipc[WakeWord] = "clear"
    /\ faceplate' = None
    /\ mouth_events' = TRUE
    /\ display_active' = FALSE
    /\ ipc' = [ipc EXCEPT ![WakeWord] = "cancel"]
    /\ UNCHANGED <<show_time, displayed_time, idle_scheduled, di_time, sp_wake, ww_quiet, idle_restored>>
    /\ UNCHANGED <<speaking, gui_page, gui_location>>
    /\ UNCHANGED IdleFrame

\* line 292: cancel_scheduled_event("IdleTime"); the handler returns
WakeWordCancel ==
    /\ ipc[WakeWord] = "cancel"
    /\ idle_scheduled' = FALSE
    /\ ww_quiet' = TRUE
    /\ ipc' = [ipc EXCEPT ![WakeWord] = "idle"]
    /\ UNCHANGED <<show_time, displayed_time, di_time, sp_wake, idle_restored>>
    /\ UNCHANGED DeviceVars
    /\ UNCHANGED IdleFrame

\* lines 294-301: the speak event of a dialog that the audio service speaks
SpeakEvent ==
    /\ ipc[HandleSpeak] = "idle"
    /\ display_when_idle
    /\ speaking' = TRUE
    /\ ww_quiet' = FALSE
    /\ ipc' = [ipc EXCEPT ![HandleSpeak] = "wait"]
    /\ UNCHANGED <<show_time, displayed_time, idle_scheduled, di_time, sp_wake, idle_restored>>
    /\ UNCHANGED <<mouth_events, faceplate, gui_page, gui_location, display_active>>
    /\ UNCHANGED IdleFrame

\* lines 301-302: wait_while_speaking() has returned, time.sleep(5) begins
SpeakWaited ==
    /\ ipc[HandleSpeak] = "wait"
    /\ ~speaking
    /\ sp_wake' = clock + SpeakSleep
    /\ ipc' = [ipc EXCEPT ![HandleSpeak] = "sleep"]
    /\ UNCHANGED <<show_time, displayed_time, idle_scheduled, di_time, ww_quiet, idle_restored>>
    /\ UNCHANGED DeviceVars
    /\ UNCHANGED IdleFrame

\* line 303: the sleep has ended, _check_mark_i_idle_setting()
SpeakSchedule ==
    /\ ipc[HandleSpeak] = "sleep"
    /\ clock >= sp_wake
    /\ sp_wake' = 0
    /\ idle_scheduled' = check_mark_i_idle_setting(show_time)
    /\ ipc' = [ipc EXCEPT ![HandleSpeak] = "idle"]
    /\ idle_restored' = TRUE
    /\ UNCHANGED <<show_time, displayed_time, di_time, ww_quiet>>
    /\ UNCHANGED DeviceVars
    /\ UNCHANGED IdleFrame

\* lines 305-311: mycroft.speech.recognition.unknown
HandleSpeechRecognitionUnknown ==
    /\ display_when_idle
    /\ idle_scheduled' = check_mark_i_idle_setting(show_time)
    /\ ww_quiet' = FALSE
    /\ idle_restored' = TRUE
    /\ UNCHANGED <<show_time, displayed_time, ipc, di_time, sp_wake>>
    /\ UNCHANGED DeviceVars
    /\ UNCHANGED IdleFrame

\* another skill takes the faceplate, or gives it up
OtherSkillDisplay ==
    /\ platform = MARK_I
    /\ display_active' = ~display_active
    /\ faceplate' = IF display_active THEN faceplate ELSE None
    /\ UNCHANGED <<speaking, mouth_events, gui_page, gui_location>>
    /\ UNCHANGED IdleVars
    /\ UNCHANGED IdleFrame

\* a Mark I at 23:59:30, with or without the show_time setting
IdleClock == MkDateTime(1, 23, 59, 30)
InitIdle == InitWith({<<MARK_I, FALSE>>}, {IdleClock}, BOOLEAN)

NextIdle ==
    \/ Tick
    \/ SpeechEnds
    \/ HandleShowTime
    \/ IdleFire
    \/ IdleCheck
    \/ IdleRender
    \/ WakeWordEvent
    \/ WakeWordClear
    \/ WakeWordCancel
    \/ SpeakEvent
    \/ SpeakWaited
    \/ SpeakSchedule
    \/ HandleSpeechRecognitionUnknown
    \/ OtherSkillDisplay

SpecIdle == InitIdle /\ [][NextIdle]_vars

(***************************************************************************)
(* The claims.                                                             *)
(***************************************************************************)
LiveDone == pc[Live] = "done"
IsTimeDialog(e) == e.name # "location-not-found"
Range(seq) == {seq[i] : i \in DOMAIN seq}

\* C1: when a build of a current-time or future-time request raises
\* LocationNotFoundError, the handler catches it (nothing reaches the host),
\* speaks location-not-found with location = the Response's requested location,
\* and neither displays nor speaks a time for that request.
C1_LocationNotFoundHandled ==
    lnf_raised =>
        /\ escaped = {}
        /\ pc[Live] \in {"location_not_found", "done"}
        /\ displayed = <<>>
        /\ \A e \in Range(spoken) : ~IsTimeDialog(e)
        /\ response.requested_location # <<>>
        /\ LiveDone =>
               spoken = <<SpeakCall("location-not-found", None,
                                    response.requested_location, NoCacheKey, response)>>

\* C1 witness: a future-time request fell back to the current-time protocol,
\* whose build raised, and the handler has finished.
C1_Witness ==
    /\ lnf_raised
    /\ LiveDone
    /\ request.intent = "future"
    /\ response.built_by = "current"
    /\ Len(spoken) = 1

\* C2: after a future-time build that returned without error: with date_time
\* unset the current-time protocol runs on the same request and the future
\* Response is never spoken or displayed; with date_time set the future
\* Response is displayed and spoken and the current-time protocol does not run.
C2_FutureFallback ==
    (future_result # None /\ ~future_result[1].raised) =>
        LET fut == future_result[1].response
        IN IF fut.date_time = None
           THEN /\ pc[Live] = "current_build" \/ response.built_by = "current"
                /\ \A e \in Range(spoken) \cup Range(displayed) : e.of.built_by # "future"
                /\ (LiveDone /\ ~lnf_raised) =>
                       /\ Len(spoken) = 1 /\ spoken[1].of.built_by = "current"
                       /\ Len(displayed) = 1 /\ displayed[1].of.built_by = "current"
           ELSE /\ response = fut
                /\ pc[Live] \in {"display", "speak", "speaking", "cleanup", "sleeping", "done"}
                /\ \A e \in Range(spoken) \cup Range(displayed) : e.of = fut
                /\ pc[Live] \in {"speak", "speaking", "cleanup", "sleeping", "done"} =>
                       displayed = <<[medium |-> display_medium, of |-> fut]>>
                /\ pc[Live] \in {"cleanup", "sleeping", "done"} =>
                       /\ Len(spoken) = 1
                       /\ spoken[1].name = fut.dialog_name
                       /\ spoken[1].time = fut.dialog_time

\* C2 witness: a fallback that ended with a spoken current-time response.
C2_Witness ==
    /\ future_result # None
    /\ ~future_result[1].raised
    /\ future_result[1].response.date_time = None
    /\ LiveDone
    /\ Len(spoken) = 1
    /\ spoken[1].of.built_by = "current"
    /\ spoken[1].of.geolocation # None

\* C3: in every reachable state at most one pending "CacheTTS" task exists.
C3_AtMostOnePending == Len(pending) <= 1


RcSteps == {"rc_cancel", "rc_schedule", "rc_build", "rc_cache", "rc_caching"}
RefreshEnds(t) == pc[t] \in RcSteps /\ pc'[t] \in {"idle", "done"}
Rearming(u) == pc[u] \in {"rc_cancel", "rc_schedule"}

\* what C4 says of one step of thread t, but for the pending task at the end
C4_StepOrder(t) ==
    /\ (pc[t] = "rc_cancel" /\ pc'[t] # pc[t]) =>
           (pc'[t] = "rc_schedule" /\ pending' = <<>>)
    /\ (pc'[t] = "rc_build" /\ pc[t] # pc'[t]) =>
           (pc[t] = "rc_schedule" /\ pending' = Append(pending, next_minute(clock)))
    /\ (pc'[t] = "rc_cache" /\ pc[t] # pc'[t]) => pc[t] = "rc_build"
    /\ RefreshEnds(t) =>
           /\ escaped' = escaped
           /\ pc[t] \in {"rc_build", "rc_caching"}
           /\ \/ logged' # None /\ logged'[1].thread = t
              \/ /\ pc[t] = "rc_caching"
                 /\ CacheEntry(current_time_cache_key, rc_response[t], t) \in cache'

\* C4 as stated: every invocation of the refresh cancels, then schedules, then
\* builds and caches; a failure of the build or of the caching is logged and
\* not propagated; and a recompute task is pending when the invocation ends.
C4_PendingAtEnd ==
    [][\A t \in Threads : /\ C4_StepOrder(t)
                          /\ RefreshEnds(t) => pending' # <<>>]_vars

\* C4 as amended: ... and when the invocation ends a recompute task is
\* pending, or another refresh (one running concurrently, or the scheduled one
\* that has already fired) is between its cancel and its schedule and re-arms it.
C4_RearmedAtEnd ==
    [][\A t \in Threads :
          /\ C4_StepOrder(t)
          /\ RefreshEnds(t) =>
                 \/ pending' # <<>>
                 \/ \E u \in Threads \ {t} : Rearming(u)']_vars

\* C4 witness: a refresh whose build or caching failed has ended, the failure
\* is logged and a task is pending.
C4_Witness ==
    /\ logged # None
    /\ logged[1].error = "Exception"
    /\ pc[logged[1].thread] \in {"idle", "done"}
    /\ pending # <<>>
    /\ escaped = {}

Writers == {t \in Threads : pc[t] = "rc_caching"}

C6_CacheKeyOnlyLocalCurrent ==
    \A e \in Range(spoken) :
        /\ e.cache_key \in {current_time_cache_key, NoCacheKey}
        /\ e.cache_key = current_time_cache_key <=>
               (IsTimeDialog(e) /\ e.of.built_by = "current"
                                /\ e.of.requested_location = <<>>)

\* C6 witness: a future-time request that fell back to the current time was
\* spoken with the cache key.
C6_Witness ==
    /\ request.intent = "future"
    /\ Len(spoken) = 1
    /\ spoken[1].name = "current-time"
    /\ spoken[1].cache_key = current_time_cache_key

\* C7: the refresh builds from the empty utterance, which takes the
\* no-location branch: the dialog stored under the key is the current-time
\* template with no location, no geolocation lookup is attempted, and the
\* refresh never raises LocationNotFoundError.
C7_RefreshNoLocation ==
    /\ extract_location(refresh_utterance) = <<>>
    /\ \A t \in Threads :
           pc[t] \in {"rc_cache", "rc_caching"} =>
               /\ rc_response[t].dialog_name = "current-time"
               /\ rc_response[t].requested_location = <<>>
               /\ rc_response[t].geolocation = None
               /\ rc_response[t].dialog_location = <<>>
    /\ \A e \in cache : e.name = "current-time" /\ e.location = <<>>
    /\ logged # None => logged[1].error # "LocationNotFoundError"

\* C7 witness: the scheduled task stored its dialog.
C7_Witness == \E e \in cache : e.by = Sched /\ e.key = current_time_cache_key

\* C8: the task is scheduled at the invocation time truncated to the minute
\* plus one minute: zero seconds, strictly later than the invocation, at most
\* 60 seconds later.  (No time passes in SpecMinute: clock is the invocation time.)
C8_NextMinuteBoundary ==
    \A i \in DOMAIN pending :
        /\ SecondOf(pending[i]) = 0
        /\ pending[i] > clock
        /\ pending[i] - clock <= 60
        /\ pending[i] = clock - SecondOf(clock) + 60

\* C8 witness: scheduled at 23:59:59, for 00:00:00 of the next day.
C8_Witness ==
    /\ pending # <<>>
    /\ HourOf(clock) = 23 /\ MinuteOf(clock) = 59 /\ SecondOf(clock) = 59
    /\ DayOf(pending[1]) = DayOf(clock) + 1
    /\ HourOf(pending[1]) = 0

OffsetWords == Numerals \cup Units
RECURSIVE SumDur(_)
SumDur(parts) == IF parts = <<>> THEN 0 ELSE Head(parts).dur + SumDur(Tail(parts))

\* C9: for a future-time utterance with a relative-offset phrase, with or
\* without a location phrase, the offset is removed before the location is
\* extracted: the requested location is never (part of) the offset phrase,
\* and a location phrase that is present is recovered.
C9_OffsetStrippedFirst ==
    (future_result # None /\ CountKind(request.parts, "off") > 0) =>
        LET r == future_result[1].response
        IN /\ \A i \in DOMAIN r.requested_location : r.requested_location[i] \notin OffsetWords
           /\ \A i \in DOMAIN request.parts :
                  request.parts[i].kind = "loc" => r.requested_location = request.parts[i].place
           /\ CountKind(request.parts, "loc") = 0 => r.requested_location = <<>>
           /\ r.duration = SumDur(request.parts)

\* C9 witness: "what time in new york in 5 hours", location before offset.
C9_Witness ==
    /\ future_result # None
    /\ Len(request.parts) = 2
    /\ request.parts[1].kind = "loc"
    /\ request.parts[2].kind = "off"
    /\ future_result[1].response.requested_location = <<"new", "york">>
    /\ future_result[1].response.duration = 5 * 3600

DialogKeys == {"current-time", "current-time-location", "future-time",
               "future-time-location", "location-not-found"}

\* C10: every spoken dialog has one of the five keys; a spoken time has a
\* "-location" key exactly when a location was resolved and a "future-" key
\* exactly when the future-time entry built it with a non-zero duration.
C10_DialogKeys ==
    \A e \in Range(spoken) :
        /\ e.name \in DialogKeys
        /\ IsTimeDialog(e) =>
               /\ e.name \in {"current-time-location", "future-time-location"}
                      <=> e.of.geolocation # None
               /\ e.name \in {"future-time", "future-time-location"}
                      <=> (e.of.built_by = "future" /\ e.of.duration # 0)

\* C10 witness: a future time at a resolved location was spoken.
C10_Witness ==
    /\ Len(spoken) = 1
    /\ spoken[1].name = "future-time-location"
    /\ spoken[1].of.geolocation # None

\* the builds whose result the live handler holds: the future-time build of
\* the request, and the current-time build once it has returned
BuildsReturned ==
    (IF future_result # None /\ ~future_result[1].raised
     THEN {future_result[1].response} ELSE {})
    \cup (IF response.built_by = "current" /\ ~lnf_raised THEN {response} ELSE {})

\* C11 as stated: for every utterance and for both build entries, a build
\* that returns without raising an error has set the Response's dialog
\* template key.
C11_KeySetWithoutError ==
    \A r \in BuildsReturned : r.dialog_name # NoDialog

\* C11: a build that returns without raising an error has set the dialog
\* template key exactly when it has set the date-time; the current-time entry
\* always sets both, the future-time entry sets both exactly when the
\* duration is not zero; and no response without a key is displayed or spoken.
C11_KeySetWithDateTime ==
    /\ \A r \in BuildsReturned :
           /\ r.dialog_name # NoDialog <=> r.date_time # None
           /\ r.built_by = "current" => r.dialog_name # NoDialog
           /\ r.built_by = "future" => (r.dialog_name # NoDialog <=> r.duration # 0)
    /\ \A e \in Range(spoken) : e.name # NoDialog
    /\ \A d \in Range(displayed) : d.of.dialog_name # NoDialog

\* C11 witness: the future-time build returned without an error and without
\* a key (no duration in the utterance), and the fallback's current-time
\* build set the key that was spoken.
C11_Witness ==
    /\ LiveDone
    /\ future_result # None
    /\ ~future_result[1].raised
    /\ future_result[1].response.dialog_name = NoDialog
    /\ response.built_by = "current"
    /\ Len(spoken) = 1
    /\ spoken[1].name = "current-time"

\* what the user sees of the skill on the device
ScreenState == <<faceplate, mouth_events, gui_page>>

\* C12: within one response the time is on the display before the speech
\* starts, the display does not change while the dialog is spoken, and it
\* changes again only after the speech has completed: the GUI is released,
\* or the Mark I faceplate is cleared after a sleep of ten seconds that
\* starts when the speech has ended.
C12_DisplaySpeakClear ==
    [][/\ (Len(spoken') > Len(spoken) /\ IsTimeDialog(spoken'[Len(spoken')])) =>
            /\ displayed = <<[medium |-> display_medium, of |-> response]>>
            /\ display_medium = "faceplate" =>
                   (faceplate = Some(get_display_time(response.date_time[1])) /\ ~mouth_events)
            /\ display_medium = "gui" => gui_page = gui_page_for
            /\ ScreenState' = ScreenState
       /\ (speaking /\ pc[Live] = "speaking") => ScreenState' = ScreenState
       /\ (displayed # <<>> /\ displayed' = displayed /\ ScreenState' # ScreenState) =>
            /\ Len(spoken) = 1
            /\ ~speaking
            /\ ScreenState' = <<None, TRUE, NoPage>>
            /\ platform = MARK_I => (pc[Live] = "sleeping" /\ wake > 0 /\ clock >= wake)
       /\ (pc[Live] = "cleanup" /\ pc'[Live] = "sleeping") =>
            (~speaking /\ wake' = clock + TEN_SECONDS)
      ]_vars

\* C12 witness: on a Mark I the time was displayed, the dialog was spoken,
\* and ten seconds later the faceplate was cleared.
C12_Witness ==
    /\ platform = MARK_I
    /\ LiveDone
    /\ Len(displayed) = 1
    /\ Len(spoken) = 1
    /\ IsTimeDialog(spoken[1])
    /\ ~speaking
    /\ faceplate = None
    /\ mouth_events

\* C13: whenever a live current-time response is spoken with the cache key,
\* the dialog held in the cache slot of that key (if any) was computed for
\* the minute of the live Response's time, under every interleaving of the
\* live request with the refresh.
C13_CacheSameMinute ==
    [][(Len(spoken') > Len(spoken) /\ spoken'[Len(spoken')].cache_key = current_time_cache_key) =>
            \A c \in cache :
                c.key = current_time_cache_key => c.time = spoken'[Len(spoken')].time
      ]_vars

\* C14: a request never has more than one dialog spoken, and a request whose
\* handler has run to completion has exactly one: location-not-found when a
\* build raised (the fallback's build included), otherwise the time dialog
\* of the handler's final Response, which on the future-to-current fallback
\* is the current-time Response and not the future-time one.
C14_ExactlyOneDialog ==
    /\ Len(spoken) <= 1
    /\ LiveDone =>
           /\ Len(spoken) = 1
           /\ spoken[1].of = response
           /\ lnf_raised <=> ~IsTimeDialog(spoken[1])
           /\ (request.intent = "future" /\ ~lnf_raised) =>
                  (spoken[1].of.built_by = "current"
                       <=> future_result[1].response.date_time = None)

\* C14 witness: the future-time build returned without a date-time, the
\* fallback's current-time build raised, and location-not-found alone was
\* spoken.
C14_Witness ==
    /\ LiveDone
    /\ request.intent = "future"
    /\ future_result # None
    /\ ~future_result[1].raised
    /\ lnf_raised
    /\ Len(spoken) = 1
    /\ spoken[1].name = "location-not-found"

\* C17: on a Mark II, while the skill's page is shown for a Response, the
\* location of the GUI session is that Response's display location when the
\* Response has a geolocation, and no location is set when it has none.
C17_GuiLocationOfResponse ==
    (platform = MARK_II /\ gui_page # NoPage /\ displayed # <<>>) =>
        LET resp == displayed[Len(displayed)].of
        IN gui_location = IF resp.geolocation = None
                          THEN None
                          ELSE Some(get_display_location(resp.geolocation))

\* C18: on a Mark I, whenever a time-request handler has finished, whether
\* the speech succeeded or failed, the mouth events are active again.
C18_MouthEventsActiveAgain ==
    (platform = MARK_I /\ pc[Live] \in {"done", "idle"}) => mouth_events

\* a display_idle call decides (lines 330-333) and returns without rendering
IdleTickSkips == ipc[DisplayIdle] = "check" /\ ipc'[DisplayIdle] = "idle"

\* C15: on a Mark I with show-time enabled, when the handler of a speak event
\* (the speech has ended) or of a speech-recognition-unknown event has run,
\* "IdleTime" is scheduled, and an idle tick that finds the display inactive
\* leaves the current time on the faceplate, whether or not the minute has
\* changed since the faceplate was last cleared.
C15_IdleDisplayRestored ==
    [][/\ (display_when_idle /\ ipc[HandleSpeak] = "sleep" /\ ipc'[HandleSpeak] = "idle")
            => idle_scheduled'
       /\ (idle_restored /\ ~display_active /\ IdleTickSkips)
            => faceplate = Some(get_display_time(clock))
       /\ (display_when_idle /\ ipc[DisplayIdle] = "render" /\ ipc'[DisplayIdle] = "idle")
            => faceplate' = di_time
      ]_vars

\* C16: on a Mark I with show-time enabled, when the wake-word handler has
\* cleared the faceplate and cancelled "IdleTime", no idle tick renders the
\* time on the faceplate until the next speak or speech-recognition-unknown
\* event, under every interleaving with an idle tick in progress.
C16_NoIdleRenderAfterWakeWord ==
    [][ww_quiet => (faceplate' = faceplate \/ faceplate' = None)]_vars

====
